---- MODULE Spec2Model ----
(***************************************************************************)
(* Model of the Social Pulse sentiment and moderation services:            *)
(*   python_scripts/sentiment_analyzer.py  (SentimentAnalyzer)             *)
(*   python_scripts/content_moderator.py   (ContentModerator)              *)
(*                                                                         *)
(* Encoding.                                                               *)
(*  - A text is a sequence of tokens.  A token is either a word (or fixed  *)
(*    phrase) of the pattern tables, delimited by non-word characters, or  *)
(*    the token " ", a run of whitespace.  <<>> is the empty string.       *)
(*  - A Python str built by an f-string is the sequence of its parts:      *)
(*    f'sarcastic+{e}' is <<"sarcastic", "+", e>>.                         *)
(*  - Scores and confidences are fixed-point numbers in units of 1/10000:  *)
(*    0.8 is 8000, 0.7999 is 7999, 1.0 is 10000.                           *)
(*  - The external models (EmotionClassifier, Detoxify) are oracles: the   *)
(*    outcome of a predict call is drawn when the handler makes the call.  *)
(***************************************************************************)
EXTENDS Integers, Sequences, FiniteSets, TLC

VARIABLES
    hf_classifier,        \* SentimentAnalyzer.hf_classifier: "null" or a handle
    hf_available,         \* SentimentAnalyzer.hf_available
    detoxify_classifier,  \* ContentModerator.detoxify_classifier
    detoxify_available,   \* ContentModerator.detoxify_available
    phase,                \* "idle", "called" (a call is in progress), "returned"
    request,              \* the call in progress: [op, text]
    response,             \* how the call ended: a return value or an exception
    locals,               \* analyze_sentiment's locals at line 179
    hf_reply,             \* what hf_classifier.predict did in this call
    detox_reply,          \* what detoxify_classifier.predict did in this call
    threads,              \* per thread: the initializer it runs and how far it got
    http,                 \* the HTTP exchange of the server: path, body, status
    config,               \* AIProviderConfig and what its getter did
    pattern               \* a call of a pattern-based AdvancedSentimentAnalyzer

modelVars == <<hf_classifier, hf_available, detoxify_classifier, detoxify_available>>
callVars == <<phase, request, response, locals, hf_reply, detox_reply>>
toolVars == <<config, pattern>>
serviceVars == <<threads, http, config, pattern>>
vars == <<hf_classifier, hf_available, detoxify_classifier, detoxify_available,
          phase, request, response, locals, hf_reply, detox_reply, threads, http,
          config, pattern>>

(***************************************************************************)
(* Bounds and units                                                        *)
(***************************************************************************)
MaxLen == 2

\* the longest text, in words, given to the pattern-based analyzers
MaxWords == 3

(***************************************************************************)
(* Values                                                                  *)
(***************************************************************************)
\* Python's None where a str is expected (detect_unsupported_emotions, violation_type)
None == "None"

\* A handle that was never assigned
Null == "null"

\* The text argument of a call: None, or a str
NoneText == [isNone |-> TRUE, val |-> <<>>]

Str(s) == [isNone |-> FALSE, val |-> s]

\* Representative words of the pattern tables, plus whitespace and a word
\* ("hello") that no table contains.  "GREAT" is upper case in the input.
Vocab == {" ", "hello", "obviously", "love", "GREAT", "mess",
          "furious", "gross", "happy", "puzzled", "calm"}

Texts == UNION {[1..n -> Vocab] : n \in 0..MaxLen}

TextArgs == {NoneText} \cup {Str(s) : s \in Texts}

\* str.lower() on one token
LowerToken(tok) ==
    CASE tok = "GREAT" -> "great"
      [] tok = "JOY" -> "joy"
      [] OTHER -> tok

\* str.lower()
Lower(s) == [i \in 1..Len(s) |-> LowerToken(s[i])]

RECURSIVE LStrip(_)
LStrip(s) == IF s # <<>> /\ Head(s) = " " THEN LStrip(Tail(s)) ELSE s

RECURSIVE RStrip(_)
RStrip(s) ==
    IF s # <<>> /\ s[Len(s)] = " " THEN RStrip(SubSeq(s, 1, Len(s) - 1)) ELSE s

\* str.strip()
Strip(s) == RStrip(LStrip(s))

\* any(re.search(pattern, text, re.IGNORECASE) for pattern in patterns)
AnySearch(patterns, text) ==
    \E i \in 1..Len(text) : LowerToken(text[i]) \in patterns

\* any(word in text for word in words): case-sensitive substring test
AnyIn(words, text) == \E i \in 1..Len(text) : text[i] \in words

StartsWith(s, prefix) ==
    /\ Len(s) >= Len(prefix)
    /\ SubSeq(s, 1, Len(prefix)) = prefix

Min(a, b) == IF a <= b THEN a ELSE b

Max(a, b) == IF a >= b THEN a ELSE b

(***************************************************************************)
(* sentiment_analyzer.py: pattern tables                                   *)
(***************************************************************************)
obvious_sarcasm_patterns ==
    {"oh great", "obviously", "of course", "sure thing", "yeah right",
     "just perfect", "just great", "how wonderful", "absolutely perfect",
     "living the dream", "perfect timing", "magical start",
     "oh sure", "as if", "totally", "love that for me"}

rhetorical_negative_patterns ==
    {"i don't know what's worse", "what could be better than", "who doesn't love",
     "what more could you want", "how much worse can it get",
     "what else could go wrong"}

positive_words ==
    {"great", "perfect", "wonderful", "amazing", "fantastic", "brilliant",
     "awesome", "excellent", "marvelous"}

negative_context_words ==
    {"mess", "smell", "broken", "fail", "disaster", "terrible", "awful", "worst",
     "horrible", "falling apart", "chaos", "nightmare"}

exaggerated_criticism_patterns ==
    {"nobody seems to care", "exactly what i wanted"}

timing_sarcasm_patterns == {"perfect timing"}

affectionate_patterns ==
    {"love", "adore", "cherish", "treasure", "devoted", "caring", "tender", "sweet",
     "darling", "sweetheart", "honey", "dear", "beloved", "babe", "baby",
     "heartfelt", "my love", "my dear", "my darling", "my heart",
     "affectionate", "loving", "warmth", "tenderness"}

confused_patterns ==
    {"confused", "bewildered", "puzzled", "perplexed", "baffled", "unclear",
     "no sense", "no idea"}

neutral_patterns ==
    {"calm", "peaceful", "serene", "tranquil", "relaxed", "zen", "at peace",
     "quiet", "still", "centered", "meditation", "mindful", "balanced"}

joy_patterns ==
    {"excited", "pumped", "thrilled", "exhilarated", "energized", "hyped",
     "psyched", "amped", "content", "pleased", "satisfied", "glad", "cheerful",
     "smile", "smiling", "grinning", "happy", "joyful", "delighted", "elated",
     "ecstatic"}

disgust_patterns ==
    {"disgusting", "revolting", "nauseating", "repulsive", "gross", "vile",
     "moldy", "rotten", "stinks", "putrid", "foul", "reeks"}

angry_patterns ==
    {"furious", "livid", "enraged", "outraged", "mad", "angry", "idiots", "morons",
     "braindead", "incompetent", "worthless", "bullshit"}

emotion_mapping ==
    [joy |-> "joy", happiness |-> "joy", happy |-> "joy",
     sadness |-> "sad", sad |-> "sad",
     anger |-> "angry", angry |-> "angry",
     fear |-> "fear", surprise |-> "surprise", disgust |-> "disgust",
     love |-> "affection", neutral |-> "neutral"]

(***************************************************************************)
(* sentiment_analyzer.py: detectors                                        *)
(***************************************************************************)
detect_advanced_sarcasm(text_original, text_lower) ==
    \/ AnySearch(obvious_sarcasm_patterns, text_lower)
    \/ AnySearch(rhetorical_negative_patterns, text_lower)
    \/ (AnyIn(positive_words, text_lower) /\ AnyIn(negative_context_words, text_lower))
    \/ AnySearch(exaggerated_criticism_patterns, text_lower)
    \/ AnySearch(timing_sarcasm_patterns, text_lower)

detect_affection(text_lower) == AnySearch(affectionate_patterns, text_lower)

\* the same checks with joy looked at first
detect_unsupported_emotions_joyFirst(text_lower) ==
    IF AnySearch(joy_patterns, text_lower) THEN "joy"
    ELSE IF AnySearch(angry_patterns, text_lower) THEN "angry"
    ELSE IF AnySearch(disgust_patterns, text_lower) THEN "disgust"
    ELSE IF AnySearch(confused_patterns, text_lower) THEN "confused"
    ELSE IF AnySearch(neutral_patterns, text_lower) THEN "neutral"
    ELSE None

\* lines 291-303
detect_unsupported_emotions(text_lower) ==
    IF AnySearch(angry_patterns, text_lower) THEN "angry"
    ELSE IF AnySearch(disgust_patterns, text_lower) THEN "disgust"
    ELSE IF AnySearch(joy_patterns, text_lower) THEN "joy"
    ELSE IF AnySearch(confused_patterns, text_lower) THEN "confused"
    ELSE IF AnySearch(neutral_patterns, text_lower) THEN "neutral"
    ELSE None

(***************************************************************************)
(* The EmotionClassifier oracle: what hf_classifier.predict can do         *)
(***************************************************************************)
\* Labels a prediction can carry: the keys of emotion_mapping, one in upper
\* case, and one outside the table.
HFLabels ==
    {"joy", "happiness", "happy", "sadness", "sad", "anger", "angry", "fear",
     "surprise", "disgust", "love", "neutral", "JOY", "bored"}

\* A 'label' whose type is not str (hf_emotion.lower() raises AttributeError)
NonStrLabel == "<non-str>"

\* Confidences a prediction can carry, on both sides of 0.5 and of 0.95
HFConfidences == {3000, 4999, 5000, 8000, 9500, 9501}

\* A 'confidence' whose type is not a number (max(0.5, c) raises TypeError)
NonNumeric == -1

HFDict(has_label, has_confidence, label, confidence) ==
    [kind |-> "dict", has_label |-> has_label, has_confidence |-> has_confidence,
     label |-> label, confidence |-> confidence]

\* predict raised an exception
HFRaise ==
    [kind |-> "raise", has_label |-> FALSE, has_confidence |-> FALSE,
     label |-> "", confidence |-> 0]

\* predict returned None or an empty dict
HFFalsy ==
    [kind |-> "falsy", has_label |-> FALSE, has_confidence |-> FALSE,
     label |-> "", confidence |-> 0]

\* predict was not called during the request
HFNotCalled ==
    [kind |-> "not_called", has_label |-> FALSE, has_confidence |-> FALSE,
     label |-> "", confidence |-> 0]

HFOutcomes ==
    {HFRaise, HFFalsy}
    \cup {HFDict(TRUE, TRUE, l, c) : l \in HFLabels, c \in HFConfidences}
    \cup {HFDict(TRUE, TRUE, NonStrLabel, 8000), HFDict(TRUE, TRUE, "joy", NonNumeric),
          HFDict(TRUE, TRUE, "neutral", NonNumeric),
          HFDict(TRUE, FALSE, "joy", 0), HFDict(FALSE, TRUE, "", 8000),
          HFDict(FALSE, FALSE, "", 0)}

(***************************************************************************)
(* sentiment_analyzer.py: analyze_sentiment                                *)
(***************************************************************************)
\* the lookup without .lower()
MapEmotion_caseSensitive(hf_emotion) ==
    IF hf_emotion \in DOMAIN emotion_mapping
    THEN emotion_mapping[hf_emotion]
    ELSE "neutral"

\* line 164: emotion_mapping.get(hf_emotion.lower(), 'neutral')
MapEmotion(hf_emotion) ==
    IF LowerToken(hf_emotion) \in DOMAIN emotion_mapping
    THEN emotion_mapping[LowerToken(hf_emotion)]
    ELSE "neutral"

\* the clamp without its upper bound
ClampConfidence_noUpperBound(hf_confidence) == Max(5000, hf_confidence)

\* line 165: min(0.95, max(0.5, hf_confidence))
ClampConfidence(hf_confidence) == Min(9500, Max(5000, hf_confidence))

\* the classifier consulted before the override is looked at
ShouldCallClassifier_ignoringOverride(unsupported_emotion, available, classifier) ==
    /\ available
    /\ classifier # Null

\* lines 132-137: the elif that guards the call of hf_classifier.predict
ShouldCallClassifier(unsupported_emotion, available, classifier) ==
    /\ unsupported_emotion = None
    /\ available
    /\ classifier # Null

\* lines 138-169: the try block around predict, from the initial
\* mapped_emotion = 'neutral', base_confidence = 0.3
CallClassifier(outcome) ==
    IF outcome.kind = "dict" /\ outcome.has_label /\ outcome.has_confidence
    THEN IF outcome.label = NonStrLabel
         THEN \* line 164 raises before any assignment
              [mapped_emotion |-> "neutral", base_confidence |-> 3000]
         ELSE IF outcome.confidence = NonNumeric
         THEN \* line 165 raises after line 164 assigned mapped_emotion
              [mapped_emotion |-> MapEmotion(outcome.label), base_confidence |-> 3000]
         ELSE [mapped_emotion |-> MapEmotion(outcome.label),
               base_confidence |-> ClampConfidence(outcome.confidence)]
    ELSE [mapped_emotion |-> "neutral", base_confidence |-> 3000]

\* lines 126-169: base emotion from the override patterns or the classifier
PrimaryDetection(text_lower, available, classifier, outcome) ==
    LET unsupported_emotion == detect_unsupported_emotions(text_lower)
        called == ShouldCallClassifier(unsupported_emotion, available, classifier)
        adopted == CallClassifier(outcome)
    IN  IF unsupported_emotion # None
        THEN [mapped_emotion |-> unsupported_emotion, base_confidence |-> 8000,
              called |-> called]
        ELSE IF called
        THEN [mapped_emotion |-> adopted.mapped_emotion,
              base_confidence |-> adopted.base_confidence,
              called |-> called]
        ELSE [mapped_emotion |-> "neutral", base_confidence |-> 3000,
              called |-> called]

\* the placeholder 0.3 left in place
MinimalFallback_keepPlaceholder(mapped_emotion, base_confidence) ==
    [mapped_emotion |-> mapped_emotion, base_confidence |-> base_confidence]

\* lines 172-177: minimal fallback
MinimalFallback(mapped_emotion, base_confidence) ==
    IF mapped_emotion = "neutral" /\ base_confidence = 3000
    THEN [mapped_emotion |-> "neutral", base_confidence |-> 5000]
    ELSE [mapped_emotion |-> mapped_emotion, base_confidence |-> base_confidence]

\* the two branches of the combo decision in the other order
ResolveFinal_affectionFirst(is_sarcastic, is_affectionate, mapped_emotion, base_confidence) ==
    IF is_affectionate
    THEN [sentiment_type |-> <<"affectionate", "+", mapped_emotion>>,
          confidence |-> Min(9000, base_confidence + 1000),
          is_affectionate |-> TRUE,
          is_combo |-> TRUE,
          primary_emotion |-> mapped_emotion,
          combo_type |-> "affectionate"]
    ELSE IF is_sarcastic
    THEN [sentiment_type |-> <<"sarcastic", "+", mapped_emotion>>,
          confidence |-> Min(9000, base_confidence + 1000),
          is_sarcastic |-> TRUE,
          is_combo |-> TRUE,
          primary_emotion |-> mapped_emotion,
          combo_type |-> "sarcastic"]
    ELSE [sentiment_type |-> <<mapped_emotion>>,
          confidence |-> base_confidence,
          is_sarcastic |-> FALSE,
          is_combo |-> FALSE]

\* the confidence bump without its cap at 0.9
ResolveFinal_uncappedBump(is_sarcastic, is_affectionate, mapped_emotion, base_confidence) ==
    IF is_sarcastic
    THEN [sentiment_type |-> <<"sarcastic", "+", mapped_emotion>>,
          confidence |-> base_confidence + 1000,
          is_sarcastic |-> TRUE,
          is_combo |-> TRUE,
          primary_emotion |-> mapped_emotion,
          combo_type |-> "sarcastic"]
    ELSE IF is_affectionate
    THEN [sentiment_type |-> <<"affectionate", "+", mapped_emotion>>,
          confidence |-> base_confidence + 1000,
          is_affectionate |-> TRUE,
          is_combo |-> TRUE,
          primary_emotion |-> mapped_emotion,
          combo_type |-> "affectionate"]
    ELSE [sentiment_type |-> <<mapped_emotion>>,
          confidence |-> base_confidence,
          is_sarcastic |-> FALSE,
          is_combo |-> FALSE]

\* lines 179-206: combo sentiments
ResolveFinal(is_sarcastic, is_affectionate, mapped_emotion, base_confidence) ==
    IF is_sarcastic
    THEN [sentiment_type |-> <<"sarcastic", "+", mapped_emotion>>,
          confidence |-> Min(9000, base_confidence + 1000),
          is_sarcastic |-> TRUE,
          is_combo |-> TRUE,
          primary_emotion |-> mapped_emotion,
          combo_type |-> "sarcastic"]
    ELSE IF is_affectionate
    THEN [sentiment_type |-> <<"affectionate", "+", mapped_emotion>>,
          confidence |-> Min(9000, base_confidence + 1000),
          is_affectionate |-> TRUE,
          is_combo |-> TRUE,
          primary_emotion |-> mapped_emotion,
          combo_type |-> "affectionate"]
    ELSE [sentiment_type |-> <<mapped_emotion>>,
          confidence |-> base_confidence,
          is_sarcastic |-> FALSE,
          is_combo |-> FALSE]

NoLocals ==
    [is_sarcastic |-> FALSE, is_affectionate |-> FALSE,
     mapped_emotion |-> None, base_confidence |-> 0]

NoResponse == [kind |-> "none"]

Raised(exc) == [kind |-> "raised", exc |-> exc]

Returned(value) == [kind |-> "returned", value |-> value]

\* lines 91-214: the whole call, for one outcome of the classifier
analyze_sentiment(text, available, classifier, outcome) ==
    IF text.isNone
    THEN \* line 98: text[:100] on None
         [response |-> Raised("TypeError"), locals |-> NoLocals,
          hf_reply |-> HFNotCalled]
    ELSE
        LET text_clean == Strip(text.val)
            text_lower == Lower(text_clean)
            is_sarcastic == detect_advanced_sarcasm(text_clean, text_lower)
            is_affectionate == detect_affection(text_lower)
            primary == PrimaryDetection(text_lower, available, classifier, outcome)
            base == MinimalFallback(primary.mapped_emotion, primary.base_confidence)
        IN  [response |-> Returned(ResolveFinal(is_sarcastic, is_affectionate,
                                                base.mapped_emotion,
                                                base.base_confidence)),
             locals |-> [is_sarcastic |-> is_sarcastic,
                         is_affectionate |-> is_affectionate,
                         mapped_emotion |-> base.mapped_emotion,
                         base_confidence |-> base.base_confidence],
             hf_reply |-> IF primary.called THEN outcome ELSE HFNotCalled]

(***************************************************************************)
(* content_moderator.py: tables                                            *)
(***************************************************************************)
\* line 93
toxicity_categories == <<"toxicity", "severe_toxicity", "obscene", "threat", "insult">>

\* the single 0.5 threshold of the docstring
toxicity_thresholds_allHalf ==
    [toxicity |-> 5000, severe_toxicity |-> 5000, obscene |-> 5000,
     threat |-> 5000, insult |-> 5000]

\* line 95
toxicity_thresholds ==
    [toxicity |-> 7600, severe_toxicity |-> 6000, obscene |-> 9500,
     threat |-> 7700, insult |-> 7800]

\* a strict comparison with the blocking threshold
IsBlocking_strict(identity_attack_score) == identity_attack_score > 8000

\* line 123: identity_attack_score >= 0.8
IsBlocking(identity_attack_score) == identity_attack_score >= 8000

(***************************************************************************)
(* The Detoxify oracle: what detoxify_classifier.predict can do            *)
(***************************************************************************)
\* A key that the returned dict does not contain
Absent == -2

\* Scores of the 'unbiased' model are sigmoid outputs in [0, 1].  Each category
\* takes values on both sides of its own threshold; a value can also be of a
\* type float() rejects (NonNumeric).
DetoxScoreMaps ==
    [identity_attack : {Absent, NonNumeric, 0, 7999, 8000, 10000},
     toxicity : {Absent, 0, 7599, 7600},
     severe_toxicity : {Absent, 0, 5999, 6000},
     obscene : {Absent, 0, 9499, 9500},
     threat : {Absent, 0, 7699, 7700},
     insult : {Absent, 0, 7799, 7800},
     sexual_explicit : {Absent, NonNumeric, 9900}]

NoScores ==
    [identity_attack |-> Absent, toxicity |-> Absent, severe_toxicity |-> Absent,
     obscene |-> Absent, threat |-> Absent, insult |-> Absent,
     sexual_explicit |-> Absent]

\* predict raised an exception
DetoxRaise == [kind |-> "raise", scores |-> NoScores]

\* predict returned None
DetoxNone == [kind |-> "none", scores |-> NoScores]

\* predict was not called during the request
DetoxNotCalled == [kind |-> "not_called", scores |-> NoScores]

DetoxOutcomes ==
    {DetoxRaise, DetoxNone} \cup {[kind |-> "dict", scores |-> m] : m \in DetoxScoreMaps}

\* the keys of the returned dict
Keys(outcome) ==
    IF outcome.kind = "dict"
    THEN {k \in DOMAIN outcome.scores : outcome.scores[k] # Absent}
    ELSE {}

(***************************************************************************)
(* content_moderator.py: moderate_content                                  *)
(***************************************************************************)
\* a fallback that fails closed
FallbackResult_failClosed ==
    [is_blocked |-> TRUE,
     violation_type |-> "identity_attack",
     confidence |-> 10000,
     toxicity_tags |-> <<>>,
     all_scores |-> <<>>,
     details |-> <<"Detoxify unavailable - no moderation applied">>,
     moderation_system |-> "fallback"]

\* lines 173-181
FallbackResult ==
    [is_blocked |-> FALSE,
     violation_type |-> None,
     confidence |-> 0,
     toxicity_tags |-> <<>>,
     all_scores |-> <<>>,
     details |-> <<"Detoxify unavailable - no moderation applied">>,
     moderation_system |-> "fallback"]

\* a tagging loop over every key of the result instead of toxicity_categories
ToxicityTags_everyKey(all_scores) ==
    SelectSeq(<<"identity_attack", "toxicity", "severe_toxicity", "obscene",
                "threat", "insult", "sexual_explicit">>,
              LAMBDA category :
                  /\ category \in DOMAIN all_scores
                  /\ all_scores[category] >= 5000)

\* lines 92-112: the tagging loop
ToxicityTags(all_scores) ==
    SelectSeq(toxicity_categories,
              LAMBDA category :
                  /\ category \in DOMAIN all_scores
                  /\ all_scores[category] >= toxicity_thresholds[category])

\* the two returns with the four keys of the older result shape only
ScoredResult_fourKeys(all_scores, toxicity_tags) ==
    LET identity_attack_score == all_scores["identity_attack"] IN
    IF IsBlocking(identity_attack_score)
    THEN [is_blocked |-> TRUE,
          violation_type |-> "identity_attack",
          confidence |-> identity_attack_score,
          details |-> <<"Detoxify detected identity attack with ",
                        identity_attack_score, " confidence">>]
    ELSE [is_blocked |-> FALSE,
          violation_type |-> None,
          confidence |-> identity_attack_score,
          details |-> <<"Detoxify: identity_attack=", identity_attack_score,
                        ", below threshold">>]

\* lines 122-159: both return statements
ScoredResult(all_scores, toxicity_tags) ==
    LET identity_attack_score == all_scores["identity_attack"] IN
    IF IsBlocking(identity_attack_score)
    THEN [is_blocked |-> TRUE,
          violation_type |-> "identity_attack",
          confidence |-> identity_attack_score,
          toxicity_tags |-> toxicity_tags,
          all_scores |-> all_scores,
          details |-> <<"Detoxify detected identity attack with ",
                        identity_attack_score, " confidence">>,
          moderation_system |-> "toxicity_combo_v1"]
    ELSE [is_blocked |-> FALSE,
          violation_type |-> None,
          confidence |-> identity_attack_score,
          toxicity_tags |-> toxicity_tags,
          all_scores |-> all_scores,
          details |-> <<"Detoxify: identity_attack=", identity_attack_score,
                        ", toxicity_tags=", Len(toxicity_tags)>>,
          moderation_system |-> "toxicity_combo_v1"]

\* a try block whose failure path labels its result as scored
ScoreWithDetoxify_failureLabelledScored(outcome) ==
    IF Keys(outcome) # {} /\ "identity_attack" \in Keys(outcome)
    THEN IF \E key \in Keys(outcome) : outcome.scores[key] = NonNumeric
         THEN [FallbackResult EXCEPT !.moderation_system = "toxicity_combo_v1"]
         ELSE LET all_scores == [key \in Keys(outcome) |-> outcome.scores[key]]
              IN  ScoredResult(all_scores, ToxicityTags(all_scores))
    ELSE FallbackResult

\* lines 76-166: the try block around predict; falls through to the fallback
ScoreWithDetoxify(outcome) ==
    IF Keys(outcome) # {} /\ "identity_attack" \in Keys(outcome)
    THEN IF \E key \in Keys(outcome) : outcome.scores[key] = NonNumeric
         THEN \* line 84: float(result[key]) raises, caught at line 164
              FallbackResult
         ELSE LET all_scores == [key \in Keys(outcome) |-> outcome.scores[key]]
              IN  ScoredResult(all_scores, ToxicityTags(all_scores))
    ELSE FallbackResult

\* lines 55-181: the whole call, for one outcome of the classifier
moderate_content(text, available, classifier, outcome) ==
    IF text.isNone
    THEN \* line 71: text[:100] on None
         [response |-> Raised("TypeError"), detox_reply |-> DetoxNotCalled]
    ELSE IF available /\ classifier # Null
    THEN [response |-> Returned(ScoreWithDetoxify(outcome)), detox_reply |-> outcome]
    ELSE [response |-> Returned(FallbackResult), detox_reply |-> DetoxNotCalled]

(***************************************************************************)
(* Model initialization: initialize_hf_classifier_with_retry and           *)
(* initialize_detoxify_with_retry, of the two classes and of the server    *)
(***************************************************************************)
\* the threads of control that run an initializer
NumThreads == 2
Threads == 1..NumThreads

\* the initializers: the constructors of the two classes (reached through
\* get_sentiment_analyzer / get_content_moderator) and the module-level calls
\* of async_server.py
ClassInitializers == {"SentimentAnalyzer", "ContentModerator"}
ServerInitializers == {"async_server.hf", "async_server.detoxify"}
Initializers == ClassInitializers \cup ServerInitializers

\* the default of the parameter max_retries
max_retries(kind) == IF kind = "SentimentAnalyzer" THEN 2 ELSE 3

\* the initializers of the emotion model try the pickled classifier first
LoadsFromCache(kind) == kind \in {"SentimentAnalyzer", "async_server.hf"}

\* the object the loop's constructor call creates
CreatedClassifier(kind) ==
    IF kind \in {"SentimentAnalyzer", "async_server.hf"}
    THEN "EmotionClassifier" ELSE "Detoxify"

backoff_time_constant(attempt) == 1

\* backoff_time = (2 ** attempt)
backoff_time(attempt) == 2 ^ attempt

\* what loading the pickled classifier can do: no usable cache file (missing,
\* version mismatch, unpickling raises); a classifier was unpickled and its
\* self-test failed or raised; a classifier was unpickled and passed
CacheOutcomes == {"no_cache", "cached_test_fails", "cached_test_passes"}

\* what one iteration of the loop can meet: the import or the constructor
\* raises; predict (or the membership test on its result) raises; the
\* self-test returns a falsy result or one without the key; the self-test passes
LoadOutcomes == {"constructor_raises", "predict_raises", "test_fails", "test_passes"}

LoadRaised(outcome) == outcome \in {"constructor_raises", "predict_raises"}

NotStarted ==
    [kind |-> "none", pc |-> "idle", classifier |-> Null, available |-> FALSE,
     attempt |-> 0, last_outcome |-> "none", backoff_time |-> 0,
     cache_hit |-> FALSE, returned |-> FALSE]

\* __init__ up to the call of the initializer (the module-level globals of
\* async_server.py start the same way)
Constructed(kind) ==
    [NotStarted EXCEPT !.kind = kind,
                       !.pc = IF LoadsFromCache(kind) THEN "cache" ELSE "loop"]

\* the cache step of initialize_hf_classifier_with_retry
load_from_cache(th, outcome) ==
    IF outcome = "cached_test_passes"
    THEN [th EXCEPT !.classifier = CreatedClassifier(th.kind), !.available = TRUE,
                    !.cache_hit = TRUE, !.pc = "done", !.returned = TRUE]
    ELSE IF outcome = "cached_test_fails" /\ th.kind = "async_server.hf"
    THEN [th EXCEPT !.classifier = CreatedClassifier(th.kind), !.pc = "loop"]
    ELSE [th EXCEPT !.pc = "loop"]

\* one iteration of  for attempt in range(max_retries),  th.attempt being the
\* value of the loop variable; it ends in a return, in time.sleep or at the
\* head of the next iteration
load_attempt(th, outcome) ==
    LET attempt == th.attempt
        last == attempt + 1 >= max_retries(th.kind)
        tried == [th EXCEPT !.attempt = attempt + 1,
                            !.last_outcome = outcome,
                            !.classifier = IF outcome = "constructor_raises"
                                           THEN th.classifier
                                           ELSE CreatedClassifier(th.kind)]
    IN  IF outcome = "test_passes"
        THEN [tried EXCEPT !.available = TRUE, !.pc = "done", !.returned = TRUE]
        ELSE IF LoadRaised(outcome) /\ attempt < max_retries(th.kind) - 1
        THEN [tried EXCEPT !.pc = "sleeping",
                           !.backoff_time = backoff_time(attempt)]
        ELSE IF last
        THEN [tried EXCEPT !.pc = "done", !.returned = FALSE]
        ELSE [tried EXCEPT !.pc = "loop"]

\* no request body has been read
NoBody == [kind |-> "none", text |-> NoneText]

NoHttp == [path |-> "none", body |-> NoBody, status |-> 0]

(***************************************************************************)
(* ai_config.py: AIProviderConfig                                          *)
(***************************************************************************)
\* no getter has been called
NoGetterCall == [getter |-> "none", created |-> <<>>, returned |-> None, raised |-> FALSE]

\* lines 22-38: the fields read from the environment; a key or endpoint is
\* TRUE when its variable is set to a non-empty string
AIProviderConfig(sp, mp, openai, claude, azure, endpoint, fallback) ==
    [sentiment_provider |-> sp,
     moderation_provider |-> mp,
     openai_key |-> openai,
     claude_key |-> claude,
     azure_key |-> azure,
     azure_endpoint |-> endpoint,
     enable_fallback |-> fallback,
     call |-> NoGetterCall]

\* the configuration of an empty environment
DefaultConfig ==
    AIProviderConfig("huggingface", "detoxify", FALSE, FALSE, FALSE, FALSE, TRUE)

\* lines 24-37: the values the environment can give the fields
Configs ==
    {AIProviderConfig(sp, mp, ok, ck, ak, ae, fb) :
        sp \in {"huggingface", "openai", "claude", "azure", "local"},
        mp \in {"detoxify", "openai", "claude"},
        ok \in BOOLEAN, ck \in BOOLEAN, ak \in BOOLEAN, ae \in BOOLEAN,
        fb \in BOOLEAN}

\* lines 53-68: the analyzer class the if/elif chain selects
SelectedAnalyzer(cfg) ==
    IF cfg.sentiment_provider = "openai" /\ cfg.openai_key THEN "OpenAISentimentAnalyzer"
    ELSE IF cfg.sentiment_provider = "claude" /\ cfg.claude_key THEN "ClaudeSentimentAnalyzer"
    ELSE IF cfg.sentiment_provider = "azure" /\ cfg.azure_key /\ cfg.azure_endpoint
    THEN "AzureSentimentAnalyzer"
    ELSE IF cfg.sentiment_provider = "local" THEN "LocalSentimentAnalyzer"
    ELSE "SentimentAnalyzer"

\* lines 82-90: the moderator class the if/elif chain selects
SelectedModerator(cfg) ==
    IF cfg.moderation_provider = "openai" /\ cfg.openai_key THEN "OpenAIContentModerator"
    ELSE IF cfg.moderation_provider = "claude" /\ cfg.claude_key THEN "ClaudeContentModerator"
    ELSE "ContentModerator"

\* lines 48-75 and 77-98: the try block, the except clause and the final
\*   return analyzer or self._create_huggingface_analyzer()
\* loads says whether the selected provider's module imports; the default
\* classes are in the repository
GetProvider(getter, selected, default, enable_fallback, loads) ==
    IF selected = default \/ loads
    THEN [getter |-> getter, created |-> <<selected>>, returned |-> selected,
          raised |-> FALSE]
    ELSE IF enable_fallback
    THEN [getter |-> getter, created |-> <<default>>, returned |-> default,
          raised |-> TRUE]
    ELSE \* analyzer is still None: the or of the return statement
         [getter |-> getter, created |-> <<default>>, returned |-> default,
          raised |-> TRUE]

(***************************************************************************)
(* custom_sentiment_analysis.py and enhanced_sentiment_analysis.py: the    *)
(* two pattern-based AdvancedSentimentAnalyzer classes.  A text is a       *)
(* sequence of words joined by single spaces; scores and confidences are   *)
(* in units of 10^-6.                                                      *)
(***************************************************************************)
\* Words of the tables, a full stop and an ellipsis standing alone, and
\* "GREAT" in upper case
PatternVocab == {"happy", "so", "!!", "obviously", "GREAT", ".", "calm", "..."}

PatternTexts == UNION {[1..n -> PatternVocab] : n \in 0..MaxWords}

\* len(re.findall(pattern, text_lower)) for a pattern whose single-word
\* alternatives are words
FindallCount(words, text) ==
    Cardinality({i \in 1..Len(text) : LowerToken(text[i]) \in words})

\* the sum of FindallCount over a list of patterns
FindallSum(patterns, text) ==
    Cardinality({ki \in (1..Len(patterns)) \X (1..Len(text)) :
                    LowerToken(text[ki[2]]) \in patterns[ki[1]]})

\* the number of patterns of a list that re.search finds in text_lower
SearchCount(patterns, text) ==
    Cardinality({k \in 1..Len(patterns) : FindallCount(patterns[k], text) > 0})

\* self.emotion_patterns in dict order
EmotionOrder(m) ==
    IF m = "custom"
    THEN <<"happy", "joy", "excited", "affection", "sad", "angry", "fear",
           "disgust", "surprise", "confused", "calm">>
    ELSE <<"happy", "excited", "sad", "angry", "confused", "fear", "calm",
           "affection">>

\* self.emotion_patterns[emotion]: the single-word alternatives of each
\* pattern; alternatives that need two or more particular words in a row
\* are left out, no text over PatternVocab contains one
custom_emotion_patterns(emotion) ==
    CASE emotion = "happy" ->
            [primary |-> <<{"happy", "joy", "joyful", "glad", "pleased", "cheerful",
                            "delighted", "thrilled"},
                           {"amazing", "awesome", "fantastic", "wonderful", "great",
                            "excellent", "perfect"}>>,
             secondary |-> <<{"nice", "good", "cool", "sweet", "fun", "exciting"},
                             {"smile", "smiling", "grin", "laugh", "laughing"},
                             {"!!"}>>,
             boosters |-> <<{"so", "very", "really", "extremely", "absolutely",
                             "totally"}>>]
      [] emotion = "joy" ->
            [primary |-> <<{"celebration", "celebrate", "party", "festival", "victory"}>>,
             secondary |-> <<{"yay", "hooray", "woohoo", "woot"}>>,
             boosters |-> <<{"absolutely", "totally", "completely", "utterly"}>>]
      [] emotion = "excited" ->
            [primary |-> <<{"excited", "pumped", "hyped", "thrilled", "stoked",
                            "energetic"}>>,
             secondary |-> <<{"wow", "omg", "amazing", "incredible"}>>,
             boosters |-> <<>>]
      [] emotion = "affection" ->
            [primary |-> <<{"darling", "sweetheart", "honey", "dear", "beloved"}>>,
             secondary |-> <<{"hug", "hugs", "kiss", "kisses", "cuddle", "embrace"}>>,
             boosters |-> <<{"so", "very", "really", "deeply", "truly", "completely"}>>]
      [] emotion = "sad" ->
            [primary |-> <<{"sad", "depressed", "miserable", "heartbroken",
                            "devastated"}>>,
             secondary |-> <<{"down", "blue", "gloomy", "melancholy"}>>,
             boosters |-> <<>>]
      [] emotion = "angry" ->
            [primary |-> <<{"angry", "furious", "rage", "enraged", "livid", "pissed"}>>,
             secondary |-> <<{"mad", "upset", "bothered"}>>,
             boosters |-> <<>>]
      [] emotion = "fear" ->
            [primary |-> <<{"scared", "afraid", "terrified", "frightened", "horrified"}>>,
             secondary |-> <<{"concerned", "uneasy", "troubled", "distressed"}>>,
             boosters |-> <<>>]
      [] emotion = "disgust" ->
            [primary |-> <<{"disgusting", "gross", "revolting", "repulsive",
                            "nauseating"}>>,
             secondary |-> <<{"yuck", "ew", "ugh", "bleh", "nasty"}>>,
             boosters |-> <<>>]
      [] emotion = "surprise" ->
            [primary |-> <<{"surprised", "shocked", "astonished", "amazed", "stunned"}>>,
             secondary |-> <<{"whoa", "what", "really", "seriously"}>>,
             boosters |-> <<>>]
      [] emotion = "confused" ->
            [primary |-> <<{"confused", "puzzled", "bewildered", "perplexed", "baffled"}>>,
             secondary |-> <<{"huh", "what", "why", "how", "when"}>>,
             boosters |-> <<>>]
      [] emotion = "calm" ->
            [primary |-> <<{"calm", "peaceful", "serene", "tranquil", "relaxed"},
                           {"meditation", "mindful", "zen", "balance", "harmony"}>>,
             secondary |-> <<{"quiet", "still", "gentle", "soft", "mild"},
                             {"okay", "fine", "alright", "normal"}>>,
             boosters |-> <<{"so", "very", "really", "extremely", "absolutely",
                             "totally"}>>]
      [] OTHER -> [primary |-> <<>>, secondary |-> <<>>, boosters |-> <<>>]

enhanced_emotion_patterns(emotion) ==
    CASE emotion = "happy" ->
            [primary |-> <<{"happy", "joy", "joyful", "delighted", "cheerful", "glad",
                            "pleased"},
                           {"amazing", "awesome", "fantastic", "wonderful", "great",
                            "excellent", "brilliant"},
                           {"love", "adore", "loving", "perfect", "incredible",
                            "outstanding"}>>,
             secondary |-> <<{"good", "nice", "fine", "okay", "pleasant", "positive",
                              "upbeat"},
                             {"smile", "smiling", "grin", "laugh", "laughter"}>>,
             boosters |-> <<{"so", "very", "really", "extremely", "super",
                             "incredibly"},
                            {"!!"}>>]
      [] emotion = "excited" ->
            [primary |-> <<{"excited", "thrilled", "ecstatic", "enthusiastic", "eager",
                            "pumped"}>>,
             secondary |-> <<{"wow", "omg", "yay", "woop", "yahoo", "woohoo",
                              "amazing"}>>,
             boosters |-> <<{"super", "mega", "ultra", "absolutely", "totally"}>>]
      [] emotion = "sad" ->
            [primary |-> <<{"sad", "depressed", "miserable", "heartbroken",
                            "devastated"}>>,
             secondary |-> <<{"disappointed", "upset", "down", "low", "blue", "lonely"}>>,
             boosters |-> <<{"so", "very", "really", "extremely", "deeply", "utterly"}>>]
      [] emotion = "angry" ->
            [primary |-> <<{"angry", "mad", "furious", "rage", "hate", "livid",
                            "enraged"}>>,
             secondary |-> <<{"stupid", "idiot", "damn", "crap", "sucks", "terrible",
                              "awful"}>>,
             boosters |-> <<{"so", "very", "really", "extremely", "totally",
                             "absolutely", "clearly", "obviously", "completely",
                             "utterly"}>>]
      [] emotion = "confused" ->
            [primary |-> <<{"confused", "puzzled", "bewildered", "perplexed", "baffled"}>>,
             secondary |-> <<{"explain", "clarify"}>>,
             boosters |-> <<{"really", "totally", "completely", "absolutely", "so"}>>]
      [] emotion = "fear" ->
            [primary |-> <<{"scared", "afraid", "terrified", "frightened", "panicked"}>>,
             secondary |-> <<{"concern", "stress", "tension", "uneasy", "jittery"}>>,
             boosters |-> <<{"so", "very", "really", "extremely", "absolutely",
                             "totally"}>>]
      [] emotion = "calm" ->
            [primary |-> <<{"calm", "peaceful", "serene", "tranquil", "relaxed"},
                           {"composed", "balanced", "centered", "zen", "meditation"},
                           {"steady", "stable", "cool", "collected", "mellow"}>>,
             secondary |-> <<{"okay", "fine", "normal", "regular", "usual", "standard"},
                             {"breath", "breathing", "peace", "quiet", "still"}>>,
             boosters |-> <<{"very", "really", "quite", "pretty", "fairly"}>>]
      [] emotion = "affection" ->
            [primary |-> <<{"love", "adore", "cherish", "treasure", "precious",
                            "darling", "sweetheart"},
                           {"amazing", "wonderful", "fantastic", "incredible", "perfect",
                            "best"}>>,
             secondary |-> <<{"lovely", "charming", "delightful", "enchanting",
                              "magnificent"}>>,
             boosters |-> <<{"so", "very", "really", "extremely", "absolutely",
                             "totally", "completely", "utterly", "most", "super"}>>]
      [] OTHER -> [primary |-> <<>>, secondary |-> <<>>, boosters |-> <<>>]

emotion_patterns(m, emotion) ==
    IF m = "custom" THEN custom_emotion_patterns(emotion)
    ELSE enhanced_emotion_patterns(emotion)

\* the score before the boosters: matches * 1.5 (custom) or * 1.0 (enhanced)
\* for primary patterns, matches * 0.6 for secondary patterns
UnboostedScore(m, text, patterns) ==
    FindallSum(patterns.primary, text) * (IF m = "custom" THEN 1500000 ELSE 1000000)
    + FindallSum(patterns.secondary, text) * 600000

\* score *= 1.3, n times
TimesThirteenTenths(score, n) == (score * 13^n) \div 10^n

\* calculate_pattern_score(text, patterns).  custom: score *= 1.3 for each
\* booster pattern found.  enhanced: booster_multiplier starts at 1.0 and
\* grows by 0.5 for each booster pattern found; min(score * multiplier, 5.0)
calculate_pattern_score(m, text, patterns) ==
    LET score == UnboostedScore(m, text, patterns)
        found == SearchCount(patterns.boosters, text)
    IN  IF m = "custom" THEN TimesThirteenTenths(score, found)
        ELSE Min((score * (10 + 5 * found)) \div 10, 5000000)

\* sarcasm_patterns['punctuation_sarcasm'][0] of custom_sentiment_analysis.py,
\*   \b(great|perfect|wonderful|amazing|fantastic)\b.*\.\s*$
\* a positive word, then anything, then a full stop that ends the text:
\* findall returns at most one match
PositiveThenFullStop(text) ==
    IF /\ Len(text) >= 2
       /\ text[Len(text)] \in {".", "..."}
       /\ \E i \in 1..(Len(text) - 1) :
             LowerToken(text[i]) \in {"great", "perfect", "wonderful", "amazing",
                                      "fantastic"}
    THEN 1 ELSE 0

\* is_sarcastic = confidence > 0.3 (custom), > 0.4 (enhanced)
SarcasticAbove(m) == IF m = "custom" THEN 300000 ELSE 400000

\* analyze_sentiment: if is_sarcastic and sarcasm_confidence > 0.4 (custom),
\* > 0.5 (enhanced)
PrefixAbove(m) == IF m = "custom" THEN 400000 ELSE 500000

\* detect_sarcasm(text): (is_sarcastic, confidence).  "obviously" and
\* "totally" are the single-word alternatives of 'obvious_sarcasm'; the
\* ellipsis is re.search(r'[.]{3,}', text)
detect_sarcasm(m, text) ==
    LET obvious == FindallCount({"obviously", "totally"}, text)
                      * (IF m = "custom" THEN 1200000 ELSE 900000)
        punctuation == IF m = "custom" THEN PositiveThenFullStop(text) * 800000 ELSE 0
        ellipsis == IF \E i \in 1..Len(text) : text[i] = "..." THEN 300000 ELSE 0
        minimizing == IF m = "custom" /\ FindallCount({"just", "only", "simply"}, text) > 0
                      THEN 200000 ELSE 0
        sarcasm_score == obvious + punctuation + ellipsis + minimizing
        confidence == Min(sarcasm_score \div 2, 1000000)
    IN  [is_sarcastic |-> confidence > SarcasticAbove(m), confidence |-> confidence]

\* apply_context_modifiers(base_score, text): no word of PatternVocab is a
\* diminisher or a negation.  custom multiplies by 1.0 + 0.3 * matches and
\* returns max(score, 0.0); enhanced multiplies by 1.3 once and returns
\* min(score, 1.0)
apply_context_modifiers(m, base_score, text) ==
    LET amplifier_matches ==
            FindallCount({"very", "really", "so", "extremely", "super", "incredibly",
                          "absolutely", "totally", "completely", "utterly", "quite",
                          "pretty", "rather"}, text)
    IN  IF m = "custom"
        THEN Max((base_score * (10 + 3 * amplifier_matches)) \div 10, 0)
        ELSE Min(IF amplifier_matches > 0 THEN (base_score * 13) \div 10 ELSE base_score,
                 1000000)

\* emotion_scores[emotion]
emotion_score(m, text, emotion) ==
    apply_context_modifiers(m, calculate_pattern_score(m, text, emotion_patterns(m, emotion)),
                            text)

\* max(emotion_scores.keys(), key=...): the first emotion in dict order
\* with the highest score
FirstMax(m, text, emotions) ==
    LET scores == [i \in 1..Len(emotions) |-> emotion_score(m, text, emotions[i])]
        first == CHOOSE i \in 1..Len(emotions) :
                    /\ \A j \in 1..Len(emotions) : scores[j] <= scores[i]
                    /\ \A j \in 1..(i - 1) : scores[j] < scores[i]
    IN  emotions[first]

\* f"{confidence:.2f}": the value rounded to a multiple of 0.01
Format2f(confidence) == ((confidence + 5000) \div 10000) * 10000

\* what analyze_sentiment returns: the label as the parts of the f-string,
\* the confidence, and the number of decimals it is written with in the
\* returned string (0 when a float is returned)
PatternResult(label, confidence, decimals) ==
    [label |-> label, confidence |-> confidence, decimals |-> decimals]

\* analyze_sentiment(text).  An emotion that scores 0 is never dominant, and
\* 'affection', which custom prefers on a tie, scores 0 on every text over
\* PatternVocab
pattern_analyze_sentiment(m, text) ==
    IF text = <<>>
    THEN IF m = "custom" THEN PatternResult(<<"calm">>, 500000, 0)
         ELSE PatternResult(<<"calm">>, 500000, 1)
    ELSE
    LET sarcasm == detect_sarcasm(m, text)
        order == EmotionOrder(m)
        top == FirstMax(m, text, order)
        raw_confidence == emotion_score(m, text, top)
        undetected == IF m = "custom" THEN raw_confidence < 200000
                      ELSE raw_confidence < 5000
        dominant_emotion == IF undetected THEN "calm" ELSE top
        emotion_confidence == IF undetected THEN 500000
                              ELSE Min(raw_confidence \div 2, 1000000)
        combined_confidence ==
            Min((emotion_confidence + sarcasm.confidence) \div 2, 1000000)
    IN  IF sarcasm.is_sarcastic /\ sarcasm.confidence > PrefixAbove(m)
        THEN IF m = "custom"
             THEN PatternResult(<<"sarcastic+", dominant_emotion>>, combined_confidence, 0)
             ELSE PatternResult(<<"sarcastic+", dominant_emotion>>,
                                Format2f(combined_confidence), 2)
        ELSE IF m = "custom"
             THEN PatternResult(<<dominant_emotion>>, emotion_confidence, 0)
             ELSE PatternResult(<<dominant_emotion>>, Format2f(emotion_confidence), 2)

\* an analyzer of module m holding text, no method called
PatternIdle(m, text) ==
    [module |-> m, text |-> text, call |-> "none", emotion |-> "none",
     sarcasm |-> [is_sarcastic |-> FALSE, confidence |-> 0], score |-> 0,
     result |-> PatternResult(<<>>, 0, 0)]

\* no pattern-based analyzer has been constructed
NoPattern == PatternIdle("none", <<>>)

(***************************************************************************)
(* The state machine                                                       *)
(***************************************************************************)
NoRequest == [op |-> "none", text |-> NoneText]

\* The (classifier, available) pairs a constructor can leave behind: no handle,
\* a handle whose self-test failed, a handle whose self-test passed.
ConstructedSentimentAnalyzers ==
    {<<Null, FALSE>>, <<"EmotionClassifier", FALSE>>, <<"EmotionClassifier", TRUE>>}

ConstructedContentModerators ==
    {<<Null, FALSE>>, <<"Detoxify", FALSE>>, <<"Detoxify", TRUE>>}

\* moderate_content reads only the length of its text
ModerationTextArgs == {NoneText, Str(<<>>), Str(<<"hello">>)}

Init ==
    /\ \E analyzer \in ConstructedSentimentAnalyzers :
          /\ hf_classifier = analyzer[1]
          /\ hf_available = analyzer[2]
    /\ \E moderator \in ConstructedContentModerators :
          /\ detoxify_classifier = moderator[1]
          /\ detoxify_available = moderator[2]
    /\ phase = "idle"
    /\ request = NoRequest
    /\ response = NoResponse
    /\ locals = NoLocals
    /\ hf_reply = HFNotCalled
    /\ detox_reply = DetoxNotCalled
    /\ threads = [t \in Threads |-> NotStarted]
    /\ http = NoHttp
    /\ config = DefaultConfig
    /\ pattern = NoPattern

\* a caller invokes analyze_sentiment(text)
RequestAnalyze ==
    /\ phase = "idle"
    /\ \E text \in TextArgs : request' = [op |-> "analyze", text |-> text]
    /\ phase' = "called"
    /\ UNCHANGED <<response, locals, hf_reply, detox_reply>>
    /\ UNCHANGED modelVars
    /\ UNCHANGED serviceVars

\* a caller invokes moderate_content(text)
RequestModerate ==
    /\ phase = "idle"
    /\ \E text \in ModerationTextArgs : request' = [op |-> "moderate", text |-> text]
    /\ phase' = "called"
    /\ UNCHANGED <<response, locals, hf_reply, detox_reply>>
    /\ UNCHANGED modelVars
    /\ UNCHANGED serviceVars

\* a handler that, finding the classifier unavailable, marks it available again
AnalyzeSentiment_reloading ==
    /\ phase = "called"
    /\ request.op = "analyze"
    /\ \E outcome \in HFOutcomes :
          LET run == analyze_sentiment(request.text, hf_available, hf_classifier, outcome)
          IN  /\ response' = run.response
              /\ locals' = run.locals
              /\ hf_reply' = run.hf_reply
    /\ phase' = "returned"
    /\ hf_available' = (hf_classifier # Null)
    /\ UNCHANGED <<request, detox_reply>>
    /\ UNCHANGED <<hf_classifier, detoxify_classifier, detoxify_available>>
    /\ UNCHANGED serviceVars

AnalyzeSentiment ==
    /\ phase = "called"
    /\ request.op = "analyze"
    /\ \E outcome \in HFOutcomes :
          LET run == analyze_sentiment(request.text, hf_available, hf_classifier, outcome)
          IN  /\ response' = run.response
              /\ locals' = run.locals
              /\ hf_reply' = run.hf_reply
    /\ phase' = "returned"
    /\ UNCHANGED <<request, detox_reply>>
    /\ UNCHANGED modelVars
    /\ UNCHANGED serviceVars

ModerateContent ==
    /\ phase = "called"
    /\ request.op = "moderate"
    /\ \E outcome \in DetoxOutcomes :
          LET run == moderate_content(request.text, detoxify_available,
                                      detoxify_classifier, outcome)
          IN  /\ response' = run.response
              /\ detox_reply' = run.detox_reply
    /\ phase' = "returned"
    /\ UNCHANGED <<request, locals, hf_reply>>
    /\ UNCHANGED modelVars
    /\ UNCHANGED serviceVars

\* the caller has taken the result; the next call can start
Return ==
    /\ phase = "returned"
    /\ phase' = "idle"
    /\ request' = NoRequest
    /\ response' = NoResponse
    /\ locals' = NoLocals
    /\ hf_reply' = HFNotCalled
    /\ detox_reply' = DetoxNotCalled
    /\ UNCHANGED modelVars
    /\ UNCHANGED serviceVars

Next == RequestAnalyze \/ RequestModerate \/ AnalyzeSentiment \/ ModerateContent \/ Return

Spec == Init /\ [][Next]_vars

(***************************************************************************)
(* The initializers as processes: each thread obtains one analyzer or      *)
(* moderator (or is the main thread of a server process at import) and     *)
(* runs its initializer step by step; nothing orders the threads.          *)
(***************************************************************************)
InitInitializers ==
    /\ hf_classifier = Null
    /\ hf_available = FALSE
    /\ detoxify_classifier = Null
    /\ detoxify_available = FALSE
    /\ phase = "idle"
    /\ request = NoRequest
    /\ response = NoResponse
    /\ locals = NoLocals
    /\ hf_reply = HFNotCalled
    /\ detox_reply = DetoxNotCalled
    /\ threads = [t \in Threads |-> NotStarted]
    /\ http = NoHttp
    /\ config = DefaultConfig
    /\ pattern = NoPattern

\* thread t calls get_sentiment_analyzer() / get_content_moderator(), which
\* construct a new object on every call, or imports async_server
BeginInitialization(t) ==
    /\ threads[t].pc = "idle"
    /\ \E kind \in Initializers : threads' = [threads EXCEPT ![t] = Constructed(kind)]
    /\ UNCHANGED <<modelVars, callVars, http, toolVars>>

\* load_sentiment_model_from_cache() / load_model_from_cache()
LoadFromCache(t) ==
    /\ threads[t].pc = "cache"
    /\ \E outcome \in CacheOutcomes :
          threads' = [threads EXCEPT ![t] = load_from_cache(threads[t], outcome)]
    /\ UNCHANGED <<modelVars, callVars, http, toolVars>>

\* one iteration of the retry loop
LoadAttempt(t) ==
    /\ threads[t].pc = "loop"
    /\ \E outcome \in LoadOutcomes :
          threads' = [threads EXCEPT ![t] = load_attempt(threads[t], outcome)]
    /\ UNCHANGED <<modelVars, callVars, http, toolVars>>

\* time.sleep(backoff_time) returns
Wake(t) ==
    /\ threads[t].pc = "sleeping"
    /\ threads' = [threads EXCEPT ![t].pc = "loop"]
    /\ UNCHANGED <<modelVars, callVars, http, toolVars>>

NextInitializers ==
    \E t \in Threads :
        \/ BeginInitialization(t)
        \/ LoadFromCache(t)
        \/ LoadAttempt(t)
        \/ Wake(t)

SpecInit == InitInitializers /\ [][NextInitializers]_vars

(***************************************************************************)
(* async_server.py: the HTTP server.  Its module globals                   *)
(* hf_emotion_classifier, HF_EMOTIONCLASSIFIER_AVAILABLE,                  *)
(* detoxify_classifier and DETOXIFY_AVAILABLE are the model variables; its *)
(* analyze_sentiment (lines 284-406) is the code of the class on these     *)
(* globals, and the shorter anger table of its detect_unsupported_emotions *)
(* agrees with the class's on every word of Vocab.                         *)
(***************************************************************************)
\* the JSON bodies of a POST: {"text": <string or null>}, an object without the
\* key "text", and a JSON value that is not an object
ObjectWithText(text) == [kind |-> "object", text |-> text]
ObjectWithoutText == [kind |-> "object_without_text", text |-> NoneText]
JsonArray == [kind |-> "array", text |-> NoneText]

PostPaths == {"/analyze", "/moderate", "/health"}

\* the bodies sent to a path; moderate_content reads only the length of its text
JsonBodies(path) ==
    {ObjectWithoutText, JsonArray}
    \cup {ObjectWithText(text) :
             text \in IF path = "/analyze" THEN TextArgs ELSE ModerationTextArgs}

\* line 227: text = data.get('text', '')
RequestText(body) == IF body.kind = "object_without_text" THEN Str(<<>>) ELSE body.text

\* lines 547-552
ServerFallbackResult ==
    [is_blocked |-> FALSE,
     violation_type |-> None,
     confidence |-> 0,
     details |-> <<"Detoxify unavailable - no moderation applied">>]

\* lines 485-540: the try block around predict; the scores are converted with
\* float() where they are used or printed
ServerScoreWithDetoxify(outcome) ==
    IF Keys(outcome) # {} /\ "identity_attack" \in Keys(outcome)
    THEN IF \E key \in Keys(outcome) \cap
                     {"identity_attack", "toxicity", "severe_toxicity",
                      "obscene", "threat", "insult"} :
                outcome.scores[key] = NonNumeric
         THEN ServerFallbackResult
         ELSE LET identity_attack_score == outcome.scores["identity_attack"] IN
              IF IsBlocking(identity_attack_score)
              THEN [is_blocked |-> TRUE,
                    violation_type |-> "identity_attack",
                    confidence |-> identity_attack_score,
                    details |-> <<"Detoxify detected identity attack with ",
                                  identity_attack_score, " confidence">>]
              ELSE [is_blocked |-> FALSE,
                    violation_type |-> None,
                    confidence |-> identity_attack_score,
                    details |-> <<"Detoxify: identity_attack=",
                                  identity_attack_score, ", below threshold">>]
    ELSE ServerFallbackResult

\* a moderate_content whose call of predict is not inside a try block
server_moderate_content_unguarded(text, available, classifier, outcome) ==
    IF text.isNone
    THEN [response |-> Raised("TypeError"), detox_reply |-> DetoxNotCalled]
    ELSE IF available /\ classifier # Null
    THEN [response |-> IF outcome.kind = "raise"
                       THEN Raised("Exception")
                       ELSE Returned(ServerScoreWithDetoxify(outcome)),
          detox_reply |-> outcome]
    ELSE [response |-> Returned(ServerFallbackResult), detox_reply |-> DetoxNotCalled]

\* lines 473-554: SentimentHandler.moderate_content
server_moderate_content(text, available, classifier, outcome) ==
    IF text.isNone
    THEN \* line 481: text[:100] on None
         [response |-> Raised("TypeError"), detox_reply |-> DetoxNotCalled]
    ELSE IF available /\ classifier # Null
    THEN [response |-> Returned(ServerScoreWithDetoxify(outcome)),
          detox_reply |-> outcome]
    ELSE [response |-> Returned(ServerFallbackResult), detox_reply |-> DetoxNotCalled]

\* line 240: json.dumps(result) encodes strings, numbers, booleans and None;
\* it raises TypeError on a confidence that is not a number
JsonSerializable(result) == result.confidence \notin {NonNumeric, Absent}

\* lines 236 and 243-245: 200 with the encoded result, or send_error(500) from
\* the except clause
ResponseStatus(handled) ==
    IF handled.kind = "returned" /\ JsonSerializable(handled.value) THEN 200 ELSE 500

\* a POST arrives
HttpPost ==
    /\ phase = "idle"
    /\ \E path \in PostPaths : \E body \in JsonBodies(path) :
          http' = [path |-> path, body |-> body, status |-> 0]
    /\ phase' = "called"
    /\ UNCHANGED <<request, response, locals, hf_reply, detox_reply>>
    /\ UNCHANGED <<modelVars, threads, toolVars>>

\* do_POST: data is not a dict, data.get raises AttributeError
PostBadBody ==
    /\ phase = "called"
    /\ http.body.kind = "array"
    /\ response' = Raised("AttributeError")
    /\ http' = [http EXCEPT !.status = 500]
    /\ phase' = "returned"
    /\ UNCHANGED <<request, locals, hf_reply, detox_reply>>
    /\ UNCHANGED <<modelVars, threads, toolVars>>

\* do_POST on /analyze
PostAnalyze ==
    /\ phase = "called"
    /\ http.body.kind \in {"object", "object_without_text"}
    /\ http.path = "/analyze"
    /\ LET text == RequestText(http.body) IN
       /\ request' = [op |-> "analyze", text |-> text]
       /\ \E outcome \in HFOutcomes :
             LET run == analyze_sentiment(text, hf_available, hf_classifier, outcome)
             IN  /\ response' = run.response
                 /\ locals' = run.locals
                 /\ hf_reply' = run.hf_reply
                 /\ http' = [http EXCEPT !.status = ResponseStatus(run.response)]
    /\ phase' = "returned"
    /\ UNCHANGED detox_reply
    /\ UNCHANGED <<modelVars, threads, toolVars>>

\* do_POST on /moderate
PostModerate ==
    /\ phase = "called"
    /\ http.body.kind \in {"object", "object_without_text"}
    /\ http.path = "/moderate"
    /\ LET text == RequestText(http.body) IN
       /\ request' = [op |-> "moderate", text |-> text]
       /\ \E outcome \in DetoxOutcomes :
             LET run == server_moderate_content(text, detoxify_available,
                                                detoxify_classifier, outcome)
             IN  /\ response' = run.response
                 /\ detox_reply' = run.detox_reply
                 /\ http' = [http EXCEPT !.status = ResponseStatus(run.response)]
    /\ phase' = "returned"
    /\ UNCHANGED <<locals, hf_reply>>
    /\ UNCHANGED <<modelVars, threads, toolVars>>

\* do_POST on any other path: send_error(404)
PostNotFound ==
    /\ phase = "called"
    /\ http.body.kind \in {"object", "object_without_text"}
    /\ http.path \notin {"/analyze", "/moderate"}
    /\ http' = [http EXCEPT !.status = 404]
    /\ phase' = "returned"
    /\ UNCHANGED <<request, response, locals, hf_reply, detox_reply>>
    /\ UNCHANGED <<modelVars, threads, toolVars>>

\* the response has been written; the server takes the next request
Close ==
    /\ phase = "returned"
    /\ phase' = "idle"
    /\ http' = NoHttp
    /\ request' = NoRequest
    /\ response' = NoResponse
    /\ locals' = NoLocals
    /\ hf_reply' = HFNotCalled
    /\ detox_reply' = DetoxNotCalled
    /\ UNCHANGED <<modelVars, threads, toolVars>>

NextServer ==
    HttpPost \/ PostBadBody \/ PostAnalyze \/ PostModerate \/ PostNotFound \/ Close

\* the globals start as the module-level initializers left them
SpecServer == Init /\ [][NextServer]_vars

(***************************************************************************)
(* ai_config.py as a process: a configuration read from the environment,   *)
(* then calls of the two getters                                           *)
(***************************************************************************)
InitConfig ==
    /\ hf_classifier = Null
    /\ hf_available = FALSE
    /\ detoxify_classifier = Null
    /\ detoxify_available = FALSE
    /\ phase = "idle"
    /\ request = NoRequest
    /\ response = NoResponse
    /\ locals = NoLocals
    /\ hf_reply = HFNotCalled
    /\ detox_reply = DetoxNotCalled
    /\ threads = [t \in Threads |-> NotStarted]
    /\ http = NoHttp
    /\ config \in Configs
    /\ pattern = NoPattern

\* get_sentiment_analyzer()
GetSentimentAnalyzer ==
    /\ phase = "idle"
    /\ \E loads \in BOOLEAN :
          config' = [config EXCEPT !.call =
                        GetProvider("get_sentiment_analyzer", SelectedAnalyzer(config),
                                    "SentimentAnalyzer", config.enable_fallback, loads)]
    /\ phase' = "returned"
    /\ UNCHANGED <<modelVars, request, response, locals, hf_reply, detox_reply>>
    /\ UNCHANGED <<threads, http, pattern>>

\* get_content_moderator()
GetContentModerator ==
    /\ phase = "idle"
    /\ \E loads \in BOOLEAN :
          config' = [config EXCEPT !.call =
                        GetProvider("get_content_moderator", SelectedModerator(config),
                                    "ContentModerator", config.enable_fallback, loads)]
    /\ phase' = "returned"
    /\ UNCHANGED <<modelVars, request, response, locals, hf_reply, detox_reply>>
    /\ UNCHANGED <<threads, http, pattern>>

\* the caller has taken the object
GetterReturn ==
    /\ phase = "returned"
    /\ phase' = "idle"
    /\ config' = [config EXCEPT !.call = NoGetterCall]
    /\ UNCHANGED <<modelVars, request, response, locals, hf_reply, detox_reply>>
    /\ UNCHANGED <<threads, http, pattern>>

NextConfig == GetSentimentAnalyzer \/ GetContentModerator \/ GetterReturn

SpecConfig == InitConfig /\ [][NextConfig]_vars

(***************************************************************************)
(* The pattern-based analyzers as a process: an analyzer and a text, then  *)
(* calls of its methods on that text                                       *)
(***************************************************************************)
InitPattern ==
    /\ hf_classifier = Null
    /\ hf_available = FALSE
    /\ detoxify_classifier = Null
    /\ detoxify_available = FALSE
    /\ phase = "idle"
    /\ request = NoRequest
    /\ response = NoResponse
    /\ locals = NoLocals
    /\ hf_reply = HFNotCalled
    /\ detox_reply = DetoxNotCalled
    /\ threads = [t \in Threads |-> NotStarted]
    /\ http = NoHttp
    /\ config = DefaultConfig
    /\ \E m \in {"custom", "enhanced"} : \E text \in PatternTexts :
          pattern = PatternIdle(m, text)

\* detect_sarcasm(text)
DetectSarcasm ==
    /\ phase = "idle"
    /\ pattern' = [pattern EXCEPT !.call = "detect_sarcasm",
                                  !.sarcasm = detect_sarcasm(pattern.module, pattern.text)]
    /\ phase' = "returned"
    /\ UNCHANGED <<modelVars, request, response, locals, hf_reply, detox_reply>>
    /\ UNCHANGED <<threads, http, config>>

\* calculate_pattern_score(text, self.emotion_patterns[emotion])
CalculatePatternScore ==
    /\ phase = "idle"
    /\ \E i \in 1..Len(EmotionOrder(pattern.module)) :
          LET emotion == EmotionOrder(pattern.module)[i]
          IN  pattern' = [pattern EXCEPT
                            !.call = "calculate_pattern_score",
                            !.emotion = emotion,
                            !.score = calculate_pattern_score(
                                          pattern.module, pattern.text,
                                          emotion_patterns(pattern.module, emotion))]
    /\ phase' = "returned"
    /\ UNCHANGED <<modelVars, request, response, locals, hf_reply, detox_reply>>
    /\ UNCHANGED <<threads, http, config>>

\* analyze_sentiment(text)
PatternAnalyzeSentiment ==
    /\ phase = "idle"
    /\ pattern' = [pattern EXCEPT
                      !.call = "analyze_sentiment",
                      !.result = pattern_analyze_sentiment(pattern.module, pattern.text)]
    /\ phase' = "returned"
    /\ UNCHANGED <<modelVars, request, response, locals, hf_reply, detox_reply>>
    /\ UNCHANGED <<threads, http, config>>

\* the caller has taken the value
PatternReturn ==
    /\ phase = "returned"
    /\ phase' = "idle"
    /\ pattern' = PatternIdle(pattern.module, pattern.text)
    /\ UNCHANGED <<modelVars, request, response, locals, hf_reply, detox_reply>>
    /\ UNCHANGED <<threads, http, config>>

NextPattern ==
    DetectSarcasm \/ CalculatePatternScore \/ PatternAnalyzeSentiment \/ PatternReturn

SpecPattern == InitPattern /\ [][NextPattern]_vars

(***************************************************************************)
(* Properties                                                              *)
(***************************************************************************)
AnalyzeDone == phase = "returned" /\ request.op = "analyze"

ModerateDone == phase = "returned" /\ request.op = "moderate"

\* text_clean and text_lower of the call in progress (lines 100-101)
TextClean == Strip(request.text.val)

TextLower == Lower(TextClean)

SarcasmFires == detect_advanced_sarcasm(TextClean, TextLower)

AffectionFires == detect_affection(TextLower)

Range(seq) == {seq[i] : i \in 1..Len(seq)}

\* C1: analyze_sentiment never raises and returns a confidence in [0,1], for
\* every text (empty, whitespace-only and None included), every classifier
\* state and every classifier outcome.
C1_NeverRaisesConfidenceInRange ==
    AnalyzeDone =>
        /\ response.kind = "returned"
        /\ response.value.confidence \in 0..10000

\* the classifier returned a score map with identity_attack, all values numeric
DetoxScoreMapWithIdentityAttack ==
    /\ detox_reply.kind = "dict"
    /\ "identity_attack" \in Keys(detox_reply)
    /\ \A key \in Keys(detox_reply) : detox_reply.scores[key] # NonNumeric

\* C2: with an available model that returns a score map containing
\* identity_attack, is_blocked is true exactly when identity_attack >= 0.8, and
\* violation_type is 'identity_attack' exactly when blocked, whatever the other
\* five scores are.
C2_BlockedIffIdentityAttackAtThreshold ==
    (ModerateDone /\ DetoxScoreMapWithIdentityAttack) =>
        /\ response.kind = "returned"
        /\ response.value.is_blocked = (detox_reply.scores["identity_attack"] >= 8000)
        /\ (response.value.violation_type = "identity_attack") = response.value.is_blocked
        /\ (response.value.violation_type = None) = ~response.value.is_blocked

C2_Witness ==
    /\ ModerateDone
    /\ detox_reply.kind = "dict"
    /\ detox_reply.scores["identity_attack"] = 8000
    /\ \A c \in Range(toxicity_categories) : detox_reply.scores[c] = 0
    /\ response.kind = "returned"
    /\ response.value.is_blocked

\* the model was unavailable, predict raised, the result lacks identity_attack,
\* or a score could not be converted
ModerationInfrastructureFailure ==
    \/ ~detoxify_available
    \/ detoxify_classifier = Null
    \/ detox_reply.kind = "raise"
    \/ "identity_attack" \notin Keys(detox_reply)
    \/ \E key \in Keys(detox_reply) : detox_reply.scores[key] = NonNumeric

\* C3: moderation fails open: on every infrastructure failure moderate_content
\* returns is_blocked = false, violation_type None, confidence 0.0 and no tags,
\* and does not raise.
C3_FailsOpen ==
    (ModerateDone /\ ~request.text.isNone /\ ModerationInfrastructureFailure) =>
        /\ response.kind = "returned"
        /\ response.value.is_blocked = FALSE
        /\ response.value.violation_type = None
        /\ response.value.confidence = 0
        /\ response.value.toxicity_tags = <<>>

C3_Witness ==
    /\ ModerateDone
    /\ detoxify_available
    /\ detox_reply.kind = "dict"
    /\ detox_reply.scores["identity_attack"] = 10000
    /\ detox_reply.scores["sexual_explicit"] = NonNumeric
    /\ response.kind = "returned"
    /\ ~response.value.is_blocked

\* C4: when the sarcasm and the affection detector both fire, the result is
\* 'sarcastic+...' with combo_type 'sarcastic'; no result carries both
\* modifiers; 'affectionate+' is returned only when sarcasm did not fire.
C4_SarcasmPrecedence ==
    (AnalyzeDone /\ response.kind = "returned") =>
        LET value == response.value IN
        /\ (SarcasmFires /\ AffectionFires) =>
              /\ StartsWith(value.sentiment_type, <<"sarcastic", "+">>)
              /\ value.combo_type = "sarcastic"
        /\ ~({"sarcastic", "affectionate"} \subseteq Range(value.sentiment_type))
        /\ StartsWith(value.sentiment_type, <<"affectionate", "+">>) => ~SarcasmFires

C4_Witness ==
    /\ AnalyzeDone
    /\ ~request.text.isNone
    /\ SarcasmFires
    /\ AffectionFires
    /\ response.kind = "returned"
    /\ response.value.combo_type = "sarcastic"

\* C5: the final label is a function of (is_sarcastic, is_affectionate, base
\* emotion, base confidence): 'sarcastic+base' at min(0.9, base + 0.1) if
\* sarcastic, else 'affectionate+base' at min(0.9, base + 0.1) if affectionate,
\* else base at the base confidence.
C5_FinalLabel ==
    (AnalyzeDone /\ response.kind = "returned") =>
        LET value == response.value
            base == locals.mapped_emotion
            bumped == IF locals.base_confidence + 1000 > 9000
                      THEN 9000 ELSE locals.base_confidence + 1000
        IN  /\ locals.is_sarcastic = SarcasmFires
            /\ locals.is_affectionate = AffectionFires
            /\ locals.is_sarcastic =>
                  /\ value.sentiment_type = <<"sarcastic", "+", base>>
                  /\ value.confidence = bumped
            /\ (~locals.is_sarcastic /\ locals.is_affectionate) =>
                  /\ value.sentiment_type = <<"affectionate", "+", base>>
                  /\ value.confidence = bumped
            /\ (~locals.is_sarcastic /\ ~locals.is_affectionate) =>
                  /\ value.sentiment_type = <<base>>
                  /\ value.confidence = locals.base_confidence

C5_Witness ==
    /\ AnalyzeDone
    /\ response.kind = "returned"
    /\ locals.is_affectionate
    /\ ~locals.is_sarcastic
    /\ locals.base_confidence = 9500
    /\ response.value.confidence = 9000

\* C6: with hf_available false and no override pattern matching, the base is
\* 'neutral' at 0.5 and the call does not raise: 'neutral' at 0.5 when neither
\* detector fires, '<modifier>+neutral' at 0.6 otherwise.
C6_UnavailableClassifierGivesNeutral ==
    (/\ AnalyzeDone
     /\ ~request.text.isNone
     /\ ~hf_available
     /\ detect_unsupported_emotions(TextLower) = None) =>
        /\ response.kind = "returned"
        /\ locals.mapped_emotion = "neutral"
        /\ locals.base_confidence = 5000
        /\ (~SarcasmFires /\ ~AffectionFires) =>
              /\ response.value.sentiment_type = <<"neutral">>
              /\ response.value.confidence = 5000
        /\ (SarcasmFires \/ AffectionFires) =>
              /\ response.value.sentiment_type \in
                    {<<"sarcastic", "+", "neutral">>, <<"affectionate", "+", "neutral">>}
              /\ response.value.confidence = 6000

C6_Witness ==
    /\ AnalyzeDone
    /\ ~hf_available
    /\ response.kind = "returned"
    /\ response.value.sentiment_type = <<"affectionate", "+", "neutral">>
    /\ response.value.confidence = 6000

\* C7: when detect_unsupported_emotions returns a category, it is the base
\* emotion at base confidence 0.8 and predict is not called in that request,
\* available or not; predict is called only when no override matched.
C7_OverrideSkipsClassifier ==
    (AnalyzeDone /\ ~request.text.isNone) =>
        LET unsupported_emotion == detect_unsupported_emotions(TextLower) IN
        /\ unsupported_emotion # None =>
              /\ locals.mapped_emotion = unsupported_emotion
              /\ locals.base_confidence = 8000
              /\ hf_reply = HFNotCalled
        /\ hf_reply # HFNotCalled => unsupported_emotion = None

C7_Witness ==
    /\ AnalyzeDone
    /\ ~request.text.isNone
    /\ hf_available
    /\ hf_classifier # Null
    /\ detect_unsupported_emotions(TextLower) = "neutral"
    /\ hf_reply = HFNotCalled
    /\ locals.base_confidence = 8000

\* the prediction was adopted: lines 143-165 ran to the end
PredictionAdopted ==
    /\ hf_reply.kind = "dict"
    /\ hf_reply.has_label
    /\ hf_reply.has_confidence
    /\ hf_reply.label # NonStrLabel
    /\ hf_reply.confidence # NonNumeric

\* C8: when the prediction is adopted, the base confidence is the model
\* confidence clamped into [0.5, 0.95].
C8_ConfidenceClamped ==
    (AnalyzeDone /\ PredictionAdopted) =>
        locals.base_confidence =
            (IF hf_reply.confidence < 5000 THEN 5000
             ELSE IF hf_reply.confidence > 9500 THEN 9500
             ELSE hf_reply.confidence)

C8_Witness ==
    /\ AnalyzeDone
    /\ PredictionAdopted
    /\ hf_reply.confidence = 9501
    /\ locals.base_confidence = 9500

C11_TaggedFromOneHalf ==
    (/\ ModerateDone
     /\ response.kind = "returned"
     /\ response.value.moderation_system = "toxicity_combo_v1") =>
        \A category \in {"toxicity", "severe_toxicity", "obscene", "threat", "insult"} :
            (category \in Keys(detox_reply) /\ detox_reply.scores[category] >= 5000)
                => category \in Range(response.value.toxicity_tags)

\* the default result of the sentiment analysis
DefaultResult ==
    [sentiment_type |-> <<"neutral">>, confidence |-> 5000,
     is_sarcastic |-> FALSE, is_combo |-> FALSE]

\* C12: for an empty or whitespace-only text analyze_sentiment returns the
\* default result (neutral, 0.5, not a combo), whatever the classifier state
\* and whatever it would predict.
C12_BlankTextGivesDefault ==
    (AnalyzeDone /\ ~request.text.isNone /\ TextClean = <<>>) =>
        /\ response.kind = "returned"
        /\ response.value = DefaultResult

\* C13: every result has the keys sentiment_type, confidence, is_sarcastic and
\* is_combo; primary_emotion and combo_type are present exactly when is_combo,
\* and then sentiment_type = combo_type + '+' + primary_emotion.
C13_ResultKeys ==
    (AnalyzeDone /\ response.kind = "returned") =>
        LET value == response.value IN
        /\ {"sentiment_type", "confidence", "is_sarcastic", "is_combo"}
              \subseteq DOMAIN value
        /\ ("primary_emotion" \in DOMAIN value) = value.is_combo
        /\ ("combo_type" \in DOMAIN value) = value.is_combo
        /\ value.is_combo =>
              value.sentiment_type = <<value.combo_type, "+", value.primary_emotion>>

\* C15: request processing never changes model state: a step that takes a
\* call of analyze_sentiment or moderate_content to its end leaves the
\* classifier handles and the availability flags unchanged on every path, and
\* an unavailable model stays unavailable.
C15_RequestsLeaveModelState ==
    /\ [][(phase = "called" /\ phase' = "returned") => UNCHANGED modelVars]_vars
    /\ [][(~hf_available => ~hf_available')
          /\ (~detoxify_available => ~detoxify_available')]_vars

C15_Witness ==
    /\ AnalyzeDone
    /\ response.kind = "returned"
    /\ hf_classifier # Null
    /\ ~hf_available
    /\ hf_reply = HFNotCalled

Started(t) == threads[t].pc # "idle"
Finished(t) == threads[t].pc = "done"
InProgress(t) == threads[t].pc \in {"cache", "loop", "sleeping"}

\* what holds of one initializer at every moment: the attempts are bounded by
\* max_retries, a sleep follows only a raised attempt that is not the last and
\* lasts 2^(k-1) seconds after the k-th, and a passed self-test ends the call
AttemptsAndWaits(th) ==
    /\ th.attempt <= max_retries(th.kind)
    /\ th.pc \in {"cache", "loop"} => th.attempt < max_retries(th.kind)
    /\ th.pc = "sleeping" =>
          /\ LoadRaised(th.last_outcome)
          /\ th.attempt < max_retries(th.kind)
          /\ th.backoff_time = 2 ^ (th.attempt - 1)
    /\ th.last_outcome = "test_passes" => (th.pc = "done" /\ th.returned)
    /\ (th.pc = "done" /\ ~th.returned) => th.attempt = max_retries(th.kind)

\* the steps an initializer can still take: every step of a thread lowers it,
\* and it is 0 exactly when the initializer has returned
StepsLeft(th) ==
    IF th.pc = "done" THEN 0
    ELSE IF th.pc = "idle" THEN 4 + 2 * max_retries(th.kind)
    ELSE 1 + 2 * (max_retries(th.kind) - th.attempt)
           + (IF th.pc = "sleeping" THEN 1 ELSE 0)
           + (IF th.pc = "cache" THEN 2 ELSE 0)

\* C16 as stated: initialization ends after at most max_retries attempts and
\* returns True exactly when an attempt of the loop passed its self-test (the
\* first one that does), False otherwise; the wait after the k-th failed attempt
\* is 2^(k-1) seconds and none follows the final attempt.
C16_TrueOnlyFromPassingAttempt ==
    \A t \in Threads :
        /\ AttemptsAndWaits(threads[t])
        /\ Finished(t) =>
              (threads[t].returned <=> threads[t].last_outcome = "test_passes")

\* C16, amended: initialization always terminates after at most max_retries
\* attempts (every step brings it nearer to its return); it returns True on the first attempt whose self-test passes, True
\* before any attempt when the cached emotion classifier passes its self-test,
\* and False otherwise; the wait after the k-th failed attempt is 2^(k-1)
\* seconds and none follows the final attempt.
C16_InitializationTerminates ==
    /\ [](\A t \in Threads :
            /\ AttemptsAndWaits(threads[t])
            /\ threads[t].cache_hit =>
                  (threads[t].attempt = 0 /\ LoadsFromCache(threads[t].kind))
            /\ Finished(t) =>
                  (threads[t].returned <=>
                      (threads[t].cache_hit \/ threads[t].last_outcome = "test_passes")))
    /\ [][\A t \in Threads :
             threads'[t] # threads[t] =>
                 /\ StepsLeft(threads'[t]) < StepsLeft(threads[t])
                 /\ StepsLeft(threads'[t]) >= 0]_vars

\* one initializer gave up after its last attempt, having slept 2 seconds after
\* the second, and another one returned True from the cache
C16_Witness ==
    /\ \E t \in Threads :
          /\ Finished(t) /\ ~threads[t].returned
          /\ threads[t].attempt = 3 /\ threads[t].backoff_time = 2
    /\ \E t \in Threads :
          Finished(t) /\ threads[t].returned /\ threads[t].cache_hit

\* C17: when the initializer has returned False, the model handle is null, and
\* later calls take the fallback path (the availability flag is False).
C17_FailedInitLeavesHandleNull ==
    \A t \in Threads :
        (Finished(t) /\ ~threads[t].returned) =>
            /\ threads[t].classifier = Null
            /\ ~threads[t].available

\* the threads that obtained an analyzer or a moderator of the given class
Obtained(kind) == {t \in Threads : threads[t].kind = kind}

\* C18: at most one initialization is in progress at any time among the threads
\* that obtain an analyzer or a moderator.
C18_InitializationsNeverOverlap ==
    Cardinality({t \in Threads :
                    threads[t].kind \in ClassInitializers /\ InProgress(t)}) <= 1

\* C19: over any sequence of get_sentiment_analyzer() and
\* get_content_moderator() calls, the initialization of the emotion model and
\* that of the toxicity model are each run at most once.
C19_EachModelLoadedOnce ==
    \A kind \in ClassInitializers : Cardinality(Obtained(kind)) <= 1

\* a POST to one of the two endpoints whose body is a JSON object and whose
\* text is a string or missing: nothing but the model layer can fail
WellFormedPost ==
    /\ http.path \in {"/analyze", "/moderate"}
    /\ http.body.kind \in {"object", "object_without_text"}
    /\ ~RequestText(http.body).isNone

\* the model layer failed during the request: the model is not loaded, predict
\* raised, or the prediction is not of the expected form
ModelLayerFailed ==
    \/ request.op = "analyze"
       /\ \/ ~(hf_available /\ hf_classifier # Null)
          \/ hf_reply.kind \in {"raise", "falsy"}
          \/ hf_reply.kind = "dict"
             /\ \/ ~hf_reply.has_label \/ ~hf_reply.has_confidence
                \/ hf_reply.label = NonStrLabel
                \/ hf_reply.confidence = NonNumeric
    \/ request.op = "moderate"
       /\ \/ ~(detoxify_available /\ detoxify_classifier # Null)
          \/ detox_reply.kind \in {"raise", "none"}
          \/ detox_reply.kind = "dict"
             /\ \/ "identity_attack" \notin Keys(detox_reply)
                \/ detox_reply.scores["identity_attack"] = NonNumeric

ModerationResultKeys ==
    {"is_blocked", "violation_type", "confidence", "details",
     "toxicity_tags", "all_scores", "moderation_system"}

\* C21: every result of ContentModerator.moderate_content, blocked, approved
\* or fallback, has the keys toxicity_tags, all_scores and moderation_system
\* besides is_blocked, violation_type, confidence and details.
C21_ModerationResultKeys ==
    (ModerateDone /\ response.kind = "returned") =>
        DOMAIN response.value = ModerationResultKeys

\* a blocked result with all seven keys
C21_Witness ==
    /\ ModerateDone
    /\ response.kind = "returned"
    /\ response.value.is_blocked
    /\ response.value.moderation_system = "toxicity_combo_v1"
    /\ DOMAIN response.value = ModerationResultKeys

\* the classifier was consulted in this request and its prediction could not
\* be adopted whole
PredictionFailed == hf_reply.kind # "not_called" /\ ~PredictionAdopted

\* C22: when the loaded classifier fails on a request in any way and no
\* override pattern matched, the base emotion is 'neutral' at base confidence
\* 0.5; no partially adopted label and no placeholder 0.3 reach the result.
C22_FailedPredictionGivesNeutral ==
    (AnalyzeDone /\ response.kind = "returned" /\ PredictionFailed) =>
        /\ locals.mapped_emotion = "neutral"
        /\ locals.base_confidence = 5000
        /\ response.value.confidence # 3000

\* C23: every retry is preceded by a backoff wait: an initializer about to make
\* attempt k+1 has slept 2^(k-1) seconds after attempt k failed, whatever the
\* failure was (an exception, or a self-test that is empty or lacks the field).
C23_RetryPrecededByWait ==
    \A t \in Threads :
        (threads[t].pc = "loop" /\ threads[t].attempt >= 1) =>
            /\ LoadRaised(threads[t].last_outcome)
            /\ threads[t].backoff_time = 2 ^ (threads[t].attempt - 1)

EmotionCategories ==
    {"joy", "sad", "angry", "fear", "disgust", "surprise", "confused",
     "affection", "neutral"}

\* C24: an adopted prediction's label is mapped case-insensitively through the
\* fixed table, every label outside the table maps to 'neutral', and the base
\* emotion of every result is one of the nine categories.
C24_LabelMappedThroughTable ==
    (AnalyzeDone /\ response.kind = "returned") =>
        /\ locals.mapped_emotion \in EmotionCategories
        /\ PredictionAdopted =>
              LET label == hf_reply.label IN
              locals.mapped_emotion =
                  (IF label \in {"joy", "JOY", "happiness", "happy"} THEN "joy"
                   ELSE IF label \in {"sadness", "sad"} THEN "sad"
                   ELSE IF label \in {"anger", "angry"} THEN "angry"
                   ELSE IF label = "fear" THEN "fear"
                   ELSE IF label = "surprise" THEN "surprise"
                   ELSE IF label = "disgust" THEN "disgust"
                   ELSE IF label = "love" THEN "affection"
                   ELSE "neutral")

\* an upper-case label adopted through the table
C24_Witness ==
    /\ AnalyzeDone
    /\ PredictionAdopted
    /\ hf_reply.label = "JOY"
    /\ locals.mapped_emotion = "joy"
    /\ response.kind = "returned"

\* C27: the sarcastic/affectionate modifier is a bump: the confidence of a
\* compound result is never lower than the base confidence of the same request.
C27_CompoundNotBelowBase ==
    (AnalyzeDone /\ response.kind = "returned" /\ response.value.is_combo) =>
        response.value.confidence >= locals.base_confidence

\* the override categories with a matching pattern in the text of the request
MatchedOverrides ==
    {category \in {"angry", "disgust", "joy", "confused", "neutral"} :
        AnySearch(CASE category = "angry" -> angry_patterns
                    [] category = "disgust" -> disgust_patterns
                    [] category = "joy" -> joy_patterns
                    [] category = "confused" -> confused_patterns
                    [] category = "neutral" -> neutral_patterns,
                  TextLower)}

\* angry > disgust > joy > confused > neutral
OverridePriority(category) ==
    CASE category = "angry" -> 1
      [] category = "disgust" -> 2
      [] category = "joy" -> 3
      [] category = "confused" -> 4
      [] category = "neutral" -> 5

\* C28: detect_unsupported_emotions returns the matching category of highest
\* priority (angry > disgust > joy > confused > neutral), and None exactly when
\* no category has a matching pattern.
C28_OverridePriority ==
    (AnalyzeDone /\ response.kind = "returned") =>
        LET unsupported_emotion == detect_unsupported_emotions(TextLower) IN
        /\ (unsupported_emotion = None) <=> (MatchedOverrides = {})
        /\ MatchedOverrides # {} =>
              /\ unsupported_emotion \in MatchedOverrides
              /\ \A category \in MatchedOverrides :
                    OverridePriority(unsupported_emotion) <= OverridePriority(category)
              /\ locals.mapped_emotion = unsupported_emotion

\* a text with a joy word and an anger word is resolved to angry
C28_Witness ==
    /\ AnalyzeDone
    /\ response.kind = "returned"
    /\ MatchedOverrides = {"angry", "joy"}
    /\ locals.mapped_emotion = "angry"

\* C29: moderation_system is 'fallback' exactly when the model was not
\* successfully consulted (unavailable, predict raised, malformed result), and
\* then the result is the fail-open approval with no tags and no scores; every
\* result derived from model scores has moderation_system 'toxicity_combo_v1'.
C29_FallbackDistinguishable ==
    (ModerateDone /\ response.kind = "returned") =>
        LET value == response.value IN
        /\ (value.moderation_system = "fallback") <=> ModerationInfrastructureFailure
        /\ value.moderation_system = "fallback" =>
              /\ value.is_blocked = FALSE
              /\ value.confidence = 0
              /\ value.toxicity_tags = <<>>
              /\ DOMAIN value.all_scores = {}
        /\ value.moderation_system # "fallback" =>
              /\ value.moderation_system = "toxicity_combo_v1"
              /\ "identity_attack" \in DOMAIN value.all_scores
              /\ value.confidence = detox_reply.scores["identity_attack"]

\* a scored approval with score 0 and no tags next to which the fallback
\* differs only by moderation_system and all_scores
C29_Witness ==
    /\ ModerateDone
    /\ response.kind = "returned"
    /\ ~response.value.is_blocked
    /\ response.value.confidence = 0
    /\ response.value.toxicity_tags = <<>>
    /\ response.value.moderation_system = "toxicity_combo_v1"

\* C25: in both pattern-based analyzers the sarcasm decision uses one
\* threshold: the label analyze_sentiment returns for a text starts with
\* 'sarcastic+' exactly when detect_sarcasm returns is_sarcastic = True for
\* that text.
C25_OneSarcasmThreshold ==
    (phase = "returned" /\ pattern.call = "analyze_sentiment") =>
        (detect_sarcasm(pattern.module, pattern.text).is_sarcastic
            <=> StartsWith(pattern.result.label, <<"sarcastic+">>))

\* C26: calculate_pattern_score scales the weighted primary/secondary score
\* by one fixed factor between 1.2 and 1.5 when one or several booster
\* patterns of the category match, by 1 when none matches, and scores the
\* empty text 0.
C26_BoostersScaleByOneFactor ==
    (phase = "returned" /\ pattern.call = "calculate_pattern_score") =>
        LET patterns == emotion_patterns(pattern.module, pattern.emotion)
            unboosted == UnboostedScore(pattern.module, pattern.text, patterns)
            found == SearchCount(patterns.boosters, pattern.text)
        IN  /\ pattern.text = <<>> => pattern.score = 0
            /\ found = 0 => pattern.score = unboosted
            /\ found >= 1 =>
                  \E tenths \in 12..15 : pattern.score * 10 = unboosted * tenths

\* C30: with enable_fallback false, a getter whose configured provider failed
\* to load neither constructs nor returns the default analyzer or moderator;
\* the default is substituted after a load failure only when enable_fallback
\* is true.
C30_FallbackHonoured ==
    (phase = "returned" /\ config.call.getter # "none" /\ config.call.raised) =>
        LET default == IF config.call.getter = "get_sentiment_analyzer"
                       THEN "SentimentAnalyzer" ELSE "ContentModerator"
        IN  (config.call.returned = default \/ config.call.created # <<>>)
                => config.enable_fallback
====
